---- MODULE Spec2Model ----
(***************************************************************************)
(* The calabash-ios-uitest build step (bitrise-io/steps-calabash-ios-      *)
(* uitest).  The repository holds three Go revisions of the step           *)
(* (src/main.go, src/unnamed/part_000, src/unnamed/part_001); a run of     *)
(* the step is modelled for each of them, selected by the variable rev.    *)
(*                                                                         *)
(* Go strings that the code only compares are TLA+ strings.  Strings the   *)
(* code takes apart (lines of a Gemfile.lock, gem versions) are sequences  *)
(* of tokens; the empty string is <<>>.                                    *)
(***************************************************************************)
EXTENDS Integers, Sequences, FiniteSets, TLC

VARIABLES
    rev,                        \* which revision of main() runs
    cfg,                        \* ConfigsModel, read once from the environment
    world,                      \* facts of the outside world the run has sampled so far
    pc,                         \* position of main()
    simulatorInfo,              \* simulator.InfoModel resolved by the run
    options,                    \* words of additional_options (part_001)
    useBundler,
    calabashCucumberVersion,
    gemFilePath,                \* Gemfile path handed to bundler
    pending,                    \* install commands not yet run
    cmds,                       \* external commands run so far, in order
    exitCode,                   \* process exit code, NoExit while running
    testResult,                 \* value of BITRISE_XAMARIN_TEST_RESULT seen by the CI system
    trace,                      \* history: the steps of main() entered so far, with outcome
    appPath,                    \* configs.AppPath (part_001 reassigns it)
    osEnv,                      \* DEVICE_TARGET of the process environment (os.Setenv)
    content,                    \* calabashCucumberFromGemfileLockContent: its argument
    lockVersion,                \*   and its result
    lpc,
    lockResults,                \*   the results of the evaluations made on content
    simMap,                     \* getLatestIOSVersion: osVersionSimulatorInfosMap
    remaining,                  \*   keys the range loop has not visited yet
    latestVersionPtr,           \*   *version.Version, NilVersion for nil
    latestOut,                  \*   its return value
    spc,
    visited,                    \*   keys in the order the range loop visited them
    latestResults               \*   the evaluations made on simMap: order and outcome

runVars == <<rev, cfg, world, pc, simulatorInfo, options, useBundler,
             calabashCucumberVersion, gemFilePath, pending, cmds, exitCode,
             testResult, trace, appPath, osEnv>>
lockVars == <<content, lockVersion, lpc, lockResults>>
simVars == <<simMap, remaining, latestVersionPtr, latestOut, spc, visited,
             latestResults>>
vars == <<runVars, lockVars, simVars>>

\* ------------------------------------------------------------------------
\* Bounds of the model
\* ------------------------------------------------------------------------
MaxLines == 4           \* lines of a Gemfile.lock content
MaxInstallCmds == 2     \* commands a gem install expands to
MaxEvals == 2           \* evaluations of a text transform on one input

\* ------------------------------------------------------------------------
\* Strings as token sequences
\* ------------------------------------------------------------------------
EmptyStr == <<>>

Range(s) == {s[i] : i \in 1..Len(s)}

\* strings.Contains(line, "specs:")
ContainsSpecs(line) == "specs:" \in Range(line)

\* strings.Trim(line, " ") == ""
TrimmedEmpty(line) == \A i \in 1..Len(line) : line[i] = " "

\* regexp `calabash-cucumber \((.+)\)`: the start positions at which the literal
\* prefix matches and a closing parenthesis follows at least one character later
MatchStarts(line) ==
    {i \in 1..Len(line) :
        /\ i + 4 <= Len(line)
        /\ line[i] = "calabash-cucumber"
        /\ line[i + 1] = " "
        /\ line[i + 2] = "("
        /\ \E j \in (i + 4)..Len(line) : line[j] = ")"}

Min(S) == CHOOSE x \in S : \A y \in S : x <= y
Max(S) == CHOOSE x \in S : \A y \in S : x >= y

\* exp.FindStringSubmatch(line)[1]: leftmost match, (.+) greedy up to the last ")"
\* of the line.  NoMatch when the line does not match.
NoMatch == <<"<nil>">>
FindStringSubmatch(line) ==
    IF MatchStarts(line) = {} THEN NoMatch
    ELSE LET i == Min(MatchStarts(line))
             j == Max({k \in (i + 4)..Len(line) : line[k] = ")"})
         IN SubSeq(line, i + 3, j - 1)

\* the first loop: the lines from the first one containing "specs:" on, cut at
\* the first line of the whole content that is empty after trimming spaces
RECURSIVE RelevantLines(_, _, _)
RelevantLines(lines, i, specsStart) ==
    IF i > Len(lines) THEN <<>>
    ELSE LET started == specsStart \/ ContainsSpecs(lines[i])
         IN IF TrimmedEmpty(lines[i]) THEN <<>>
            ELSE IF started
                 THEN <<lines[i]>> \o RelevantLines(lines, i + 1, started)
                 ELSE RelevantLines(lines, i + 1, started)

\* the second loop: the submatch of the first relevant line that matches
RECURSIVE FirstMatch(_, _)
FirstMatch(rel, i) ==
    IF i > Len(rel) THEN EmptyStr
    ELSE IF FindStringSubmatch(rel[i]) # NoMatch
         THEN FindStringSubmatch(rel[i])
         ELSE FirstMatch(rel, i + 1)

\* content is the result of strings.Split(content, "\n"): a non-empty
\* sequence of lines
calabashCucumberFromGemfileLockContent(lines) ==
    FirstMatch(RelevantLines(lines, 1, FALSE), 1)

\* The lines a Gemfile.lock is made of in the model
LineBlank == <<>>
LineSpaces == <<" ", " ">>
LineGem == <<"GEM">>
LineSpecs == <<" ", "specs:">>
LineEntryA == <<" ", "calabash-cucumber", " ", "(", "0.19.2", ")">>
LineEntryB == <<" ", "calabash-cucumber", " ", "(", "0.21.1", ")">>
LineOther == <<" ", "run_loop", " ", "(", "2.1.3", ")">>
LockLines == {LineBlank, LineSpaces, LineGem, LineSpecs, LineEntryA, LineEntryB,
              LineOther}

SeqsUpTo(S, n) == UNION {[1..k -> S] : k \in 1..n}
LockContents == SeqsUpTo(LockLines, MaxLines)

\* ------------------------------------------------------------------------
\* Simulator registry and OS versions
\* ------------------------------------------------------------------------
\* A registry key "<os> <a>.<b>[.<c>]" is [os, segs]; two keys are equal as
\* strings exactly when they are equal as records.
Key(os, segs) == [os |-> os, segs |-> segs]
IOS93 == Key("iOS", <<9, 3>>)
IOS100 == Key("iOS", <<10, 0>>)
IOS1001 == Key("iOS", <<10, 0, 1>>)
TVOS110 == Key("tvOS", <<11, 0>>)
RegKeys == {IOS93, IOS100, IOS1001, TVOS110}

\* the values of simulator_os_version that are no registry key
EmptyOs == Key("", <<>>)
Latest == Key("latest", <<>>)

Devices == {"iPhone 6", "iPad Air"}
DeviceLists == {{"iPhone 6"}, {"iPhone 6", "iPad Air"}}

\* simulator.OsVersionSimulatorInfosMap: a Go map from the section names of
\* `simctl list` to the simulators listed under them
Registries == UNION {[D -> DeviceLists] : D \in SUBSET RegKeys}

\* the registries a whole run is checked against
RunRegistries == UNION {[D -> {{"iPhone 6"}}] : D \in SUBSET {IOS93, IOS100, IOS1001}}

\* simulator.InfoModel; the ID is unique to the simulator
NoKey == Key("<none>", <<>>)
InfoModel(k, name) ==
    [Name |-> name, ID |-> [key |-> k, name |-> name], Status |-> "Shutdown"]
ZeroInfo == [Name |-> "", ID |-> [key |-> NoKey, name |-> ""], Status |-> ""]
InfosOf(m, k) == {InfoModel(k, n) : n \in m[k]}

\* strings.HasPrefix(osVersion, "iOS")
HasPrefixIOS(k) == k.os = "iOS"

\* version.NewVersion(versionStr): the segments, padded with zeros to three
NewVersion(segs) == [i \in 1..3 |-> IF i <= Len(segs) THEN segs[i] ELSE 0]

\* Version.Compare: numerically, segment by segment
Compare(a, b) ==
    IF a[1] # b[1] THEN (IF a[1] < b[1] THEN -1 ELSE 1)
    ELSE IF a[2] # b[2] THEN (IF a[2] < b[2] THEN -1 ELSE 1)
    ELSE IF a[3] # b[3] THEN (IF a[3] < b[3] THEN -1 ELSE 1)
    ELSE 0

\* the versions compared as text: "10.0" sorts before "9.3"
Digits(n) == IF n < 10 THEN <<n>> ELSE <<n \div 10, n % 10>>
TextOf(v) == Digits(v[1]) \o <<0 - 1>> \o Digits(v[2]) \o <<0 - 1>> \o Digits(v[3])
RECURSIVE TextGreater(_, _, _)
TextGreater(a, b, i) ==
    IF i > Len(a) THEN FALSE
    ELSE IF i > Len(b) THEN TRUE
    ELSE IF a[i] # b[i] THEN a[i] > b[i]
    ELSE TextGreater(a, b, i + 1)
GreaterThanAsText(a, b) == TextGreater(TextOf(a), TextOf(b), 1)

LessThan(a, b) == Compare(a, b) < 0
GreaterThan(a, b) == Compare(a, b) > 0

NilVersion == <<>>

\* the loop body without the comparison: the key visited last wins
LoopBodyLastSeen(latest, k) == IF ~HasPrefixIOS(k) THEN latest ELSE NewVersion(k.segs)

\* body of the range loop of getLatestIOSVersion for one key
LoopBody(latest, k) ==
    IF ~HasPrefixIOS(k) THEN latest
    ELSE IF latest = NilVersion \/ GreaterThan(NewVersion(k.segs), latest)
         THEN NewVersion(k.segs)
         ELSE latest

FormatMajor(latest) == Key("iOS", <<latest[1], latest[2]>>)
\* the code after the loop: ("", error) or (fmt.Sprintf("iOS %d.%d", ...), nil)
FormatLatest(latest) ==
    IF latest = NilVersion
    THEN [val |-> EmptyOs, err |-> "Failed to determin latest iOS simulator version"]
    ELSE [val |-> FormatMajor(latest), err |-> ""]

\* getLatestIOSVersion as a function of the map: the loop keeps the greatest
\* version seen, whatever the order of the keys
getLatestIOSVersion(m) ==
    LET ios == {k \in DOMAIN m : HasPrefixIOS(k)}
    IN IF ios = {} THEN FormatLatest(NilVersion)
       ELSE FormatLatest(NewVersion(
                (CHOOSE k \in ios : \A o \in ios :
                    ~GreaterThan(NewVersion(o.segs), NewVersion(k.segs))).segs))

\* getSimulatorInfo after the registry has been fetched
getSimulatorInfo(m, osVersion, deviceName) ==
    LET latest == getLatestIOSVersion(m)
        os == IF osVersion = Latest THEN latest.val ELSE osVersion
    IN IF osVersion = Latest /\ latest.err # ""
       THEN [info |-> ZeroInfo, err |-> latest.err]
       ELSE IF os \notin DOMAIN m
       THEN [info |-> ZeroInfo, err |-> "No simulators found for os version"]
       ELSE IF deviceName \in m[os]
       THEN [info |-> InfoModel(os, deviceName), err |-> ""]
       ELSE [info |-> ZeroInfo, err |-> "No simulators found for os version, device name"]

\* ------------------------------------------------------------------------
\* Idle values of the three groups of variables
\* ------------------------------------------------------------------------
NotRun == <<"<not run>">>
NoExit == 0 - 1

LockIdle ==
    /\ content = <<LineBlank>>
    /\ lockVersion = NotRun
    /\ lpc = "idle"
    /\ lockResults = <<>>

SimIdle ==
    /\ simMap = <<>>
    /\ remaining = {}
    /\ latestVersionPtr = NilVersion
    /\ latestOut = [val |-> EmptyOs, err |-> "<not run>"]
    /\ spc = "idle"
    /\ visited = <<>>
    /\ latestResults = <<>>

\* ------------------------------------------------------------------------
\* The run of the step: configuration and outside world
\* ------------------------------------------------------------------------
Revs == {"main", "part000", "part001"}

VersionA == <<"0.19.2">>
VersionB == <<"0.21.1">>
GemVersions == {VersionA, VersionB}

\* additional_options as typed, and an unterminated quote
OptionInputs == {<<>>, <<"--tags", " ", "@smoke">>, <<"'", "--tags">>}

\* createConfigsModelFromEnvs; the revisions before part_001 have four inputs
BaseConfigs ==
    [SimulatorDevice : {""} \cup Devices,
     SimulatorOsVersion : {EmptyOs, Latest, IOS100},
     CalabashCucumberVersion : {EmptyStr, VersionA},
     GemFilePath : {"", "Gemfile"},
     WorkDir : {""}, AppPath : {""}, Options : {<<>>}]
FullConfigs ==
    [SimulatorDevice : {""} \cup Devices,
     SimulatorOsVersion : {EmptyOs, Latest, IOS100},
     CalabashCucumberVersion : {EmptyStr, VersionA},
     GemFilePath : {"", "Gemfile"},
     WorkDir : {"", "features"}, AppPath : {"", "My.app"}, Options : OptionInputs]
ConfigsOf(r) == IF r = "part001" THEN FullConfigs ELSE BaseConfigs

\* pathutil.IsDirExists / IsPathExists: (true, nil), (false, nil), (_, err)
PathStates == {"exists", "missing", "error"}
Unknown == "unknown"

\* the contents a Gemfile.lock of the run is drawn from
SampleLocks ==
    {<<LineGem, LineSpecs, LineEntryA, LineBlank>>,
     <<LineGem, LineSpecs, LineOther, LineBlank>>,
     <<LineBlank, LineGem, LineSpecs, LineEntryA>>}

\* fileutil.ReadStringFromFile: not called, or failed
NoContent == << <<"<not read>">> >>
ReadError == << <<"<read error>">> >>

\* the files of an app directory: its executable and the executables kept in
\* .monotouch-32 and .monotouch-64; AbsentDir where there is no directory
AbsentDir == [main |-> "", m32 |-> "", m64 |-> ""]
FatApp == [main |-> "i386+x86_64", m32 |-> "i386", m64 |-> "x86_64"]
\* the configured app directory and the app directory under the temporary one
NoFs == [orig |-> AbsentDir, tmp |-> AbsentDir]

World0 ==
    [workDir |-> Unknown, appDir |-> Unknown, mono32 |-> Unknown, mono64 |-> Unknown,
     arch |-> Unknown, fs |-> NoFs,
     appCopy |-> "none", gemfile |-> Unknown, lock |-> Unknown, lockContent |-> NoContent,
     registry |-> <<>>, registryRead |-> FALSE,
     installed |-> {}, installedRead |-> FALSE]

\* pathutil.AbsPath of the relative paths of the model
AbsPath(p) == IF p = "Gemfile" THEN "/cwd/Gemfile"
              ELSE IF p = "features" THEN "/cwd/features"
              ELSE p

\* ------------------------------------------------------------------------
\* External commands
\* ------------------------------------------------------------------------
W(s) == <<s>>
Unset == "<unset>"
UnsetID == [key |-> NoKey, name |-> Unset]

Cmd(name, argv, gemfileEnv, deviceTarget, app, dir, stdin, ok) ==
    [name |-> name, argv |-> argv, BUNDLE_GEMFILE |-> gemfileEnv,
     DEVICE_TARGET |-> deviceTarget, APP |-> app, dir |-> dir, stdin |-> stdin,
     ok |-> ok]

Last(s) == s[Len(s)]

ResultKey == "BITRISE_XAMARIN_TEST_RESULT"

\* exportEnvironmentWithEnvman(keyStr, valueStr)
exportEnvironmentWithEnvman(keyStr, valueStr, ok) ==
    Cmd("envman", <<W("envman"), W("add"), W("--key"), W(keyStr)>>,
        Unset, osEnv, Unset, "", valueStr, ok)

\* registerFail that leaves out the export
registerFailNoExport(log, envmanOk) == [cmds |-> log, exitCode |-> 1]

\* registerFail that returns instead of exiting with 1
registerFailExitZero(log, envmanOk) ==
    [cmds |-> Append(log, exportEnvironmentWithEnvman(ResultKey, "failed", envmanOk)),
     exitCode |-> 0]

\* registerFail: log, export "failed" (an error of the export is only logged),
\* os.Exit(1)
registerFail(log, envmanOk) ==
    [cmds |-> Append(log, exportEnvironmentWithEnvman(ResultKey, "failed", envmanOk)),
     exitCode |-> 1]

\* what the CI system reads back: the value of the last export that succeeded
RECURSIVE ExportedValue(_)
ExportedValue(log) ==
    IF log = <<>> THEN ""
    ELSE IF Last(log).name = "envman" /\ Last(log).ok THEN Last(log).stdin
    ELSE ExportedValue(SubSeq(log, 1, Len(log) - 1))

\* main() with the install step moved before the resolution of the gem version
StepsOfInstallFirst(r) ==
    IF r = "main"
    THEN <<"validate", "simulator", "rubycmd", "install", "version", "cucumber">>
    ELSE IF r = "part000"
    THEN <<"validate", "simulator", "install", "version", "cucumber", "report">>
    ELSE <<"validate", "split", "simulator", "app", "install", "version", "cucumber",
           "report">>

\* the order of the steps of main()
StepsOf(r) ==
    IF r = "main"
    THEN <<"validate", "simulator", "rubycmd", "version", "install", "cucumber">>
    ELSE IF r = "part000"
    THEN <<"validate", "simulator", "version", "install", "cucumber", "report">>
    ELSE <<"validate", "split", "simulator", "app", "version", "install", "cucumber",
           "report">>

IndexOf(seq, x) == CHOOSE i \in 1..Len(seq) : seq[i] = x

\* the step that follows a step that succeeded; main() returns after the last
NextStep(r, step) ==
    IF IndexOf(StepsOf(r), step) = Len(StepsOf(r)) THEN "done"
    ELSE StepsOf(r)[IndexOf(StepsOf(r), step) + 1]

Event(step, ok) == [step |-> step, ok |-> ok]

\* a call of registerFail in step `step`, after the commands of `log`
Fail(log, step, envmanOk) ==
    /\ cmds' = registerFail(log, envmanOk).cmds
    /\ exitCode' = registerFail(log, envmanOk).exitCode
    /\ testResult' = ExportedValue(registerFail(log, envmanOk).cmds)
    /\ pc' = "exited"
    /\ trace' = Append(trace, Event(step, FALSE))

\* falling through to the next step, after the commands of `log`
Continue(log, step) ==
    /\ cmds' = log
    /\ pc' = NextStep(rev, step)
    /\ trace' = Append(trace, Event(step, TRUE))
    /\ exitCode' = IF NextStep(rev, step) = "done" THEN 0 ELSE exitCode
    /\ testResult' = ExportedValue(log)

\* ------------------------------------------------------------------------
\* validate inputs
\* ------------------------------------------------------------------------
\* validate without the checks of WorkDir and AppPath
validateSimulatorOnly(r, c, w) ==
    IF c.SimulatorDevice = "" THEN "no SimulatorDevice parameter specified"
    ELSE IF c.SimulatorOsVersion = EmptyOs THEN "no SimulatorOsVersion parameter specified"
    ELSE ""

\* ConfigsModel.validate: "" for nil
validate(r, c, w) ==
    IF r = "part001" /\ c.WorkDir = "" THEN "no WorkDir parameter specified"
    ELSE IF r = "part001" /\ w.workDir = "error" THEN "failed to check if WorkDir exist"
    ELSE IF r = "part001" /\ w.workDir # "exists" THEN "WorkDir directory not exists"
    ELSE IF r = "part001" /\ c.AppPath # "" /\ w.appDir = "error"
         THEN "failed to check if AppPath exist"
    ELSE IF r = "part001" /\ c.AppPath # "" /\ w.appDir # "exists"
         THEN "AppPath directory not exists"
    ELSE IF c.SimulatorDevice = "" THEN "no SimulatorDevice parameter specified"
    ELSE IF c.SimulatorOsVersion = EmptyOs THEN "no SimulatorOsVersion parameter specified"
    ELSE ""

Validate ==
    /\ pc = "validate"
    /\ \E wd \in (IF rev = "part001" /\ cfg.WorkDir # "" THEN PathStates ELSE {Unknown}),
          ad \in (IF rev = "part001" /\ cfg.AppPath # "" THEN PathStates ELSE {Unknown}),
          e \in BOOLEAN :
          LET w == [world EXCEPT !.workDir = wd, !.appDir = ad]
          IN /\ world' = w
             /\ IF validate(rev, cfg, w) # ""
                THEN Fail(cmds, "validate", e)
                ELSE Continue(cmds, "validate")
    /\ UNCHANGED <<rev, cfg, simulatorInfo, options, useBundler, calabashCucumberVersion,
                   gemFilePath, pending, appPath, osEnv, lockVars, simVars>>

\* ------------------------------------------------------------------------
\* split additional_options (part_001)
\* ------------------------------------------------------------------------
\* shellquote.Split: words separated by spaces, a single quote opens a quoted
\* stretch that must be closed
RECURSIVE SplitWords(_, _, _, _)
SplitWords(s, i, word, inQuote) ==
    IF i > Len(s)
    THEN IF inQuote THEN [words |-> <<>>, err |-> "Unterminated single-quoted string"]
         ELSE [words |-> IF word = <<>> THEN <<>> ELSE <<word>>, err |-> ""]
    ELSE IF s[i] = "'" THEN SplitWords(s, i + 1, word, ~inQuote)
    ELSE IF s[i] = " " /\ ~inQuote
         THEN LET rest == SplitWords(s, i + 1, <<>>, FALSE)
              IN [words |-> (IF word = <<>> THEN <<>> ELSE <<word>>) \o rest.words,
                  err |-> rest.err]
    ELSE SplitWords(s, i + 1, Append(word, s[i]), inQuote)

Split(s) == SplitWords(s, 1, <<>>, FALSE)

SplitOptions ==
    /\ pc = "split"
    /\ \E e \in BOOLEAN :
          IF Split(cfg.Options).err # ""
          THEN Fail(cmds, "split", e) /\ UNCHANGED options
          ELSE Continue(cmds, "split") /\ options' = Split(cfg.Options).words
    /\ UNCHANGED <<rev, cfg, world, simulatorInfo, useBundler, calabashCucumberVersion,
                   gemFilePath, pending, appPath, osEnv, lockVars, simVars>>

\* ------------------------------------------------------------------------
\* resolve simulator
\* ------------------------------------------------------------------------
\* simulator.GetSimulatorInfo and simulator.GetLatestSimulatorInfoAndVersion of
\* go-xcode, called by part_000 and part_001: a simulator of that name under that
\* section, or for "latest" under a section of iOS, or an error
LibraryResults(m, osVersion, deviceName) ==
    LET under == IF osVersion = Latest
                 THEN {k \in DOMAIN m : HasPrefixIOS(k) /\ deviceName \in m[k]}
                 ELSE {k \in DOMAIN m : k = osVersion /\ deviceName \in m[k]}
    IN IF under = {} THEN {[info |-> ZeroInfo, err |-> "simulator not found"]}
       ELSE {[info |-> InfoModel(k, deviceName), err |-> ""] : k \in under}

ResolveResults(r, m, osVersion, deviceName) ==
    IF r = "main" THEN {getSimulatorInfo(m, osVersion, deviceName)}
    ELSE LibraryResults(m, osVersion, deviceName)

\* main.go and part_000 put the identifier into the process environment
SetenvDeviceTarget(r, id, env) == IF r = "part001" THEN env ELSE id

ResolveSimulator ==
    /\ pc = "simulator"
    /\ \/ \E e \in BOOLEAN :      \* simctl list fails
             /\ Fail(cmds, "simulator", e)
             /\ UNCHANGED <<world, simulatorInfo, osEnv>>
       \/ \E m \in RunRegistries, e \in BOOLEAN :
             \E res \in ResolveResults(rev, m, cfg.SimulatorOsVersion,
                                       cfg.SimulatorDevice) :
                /\ world' = [world EXCEPT !.registry = m, !.registryRead = TRUE]
                /\ IF res.err # ""
                   THEN Fail(cmds, "simulator", e) /\ UNCHANGED <<simulatorInfo, osEnv>>
                   ELSE /\ Continue(cmds, "simulator")
                        /\ simulatorInfo' = res.info
                        /\ osEnv' = SetenvDeviceTarget(rev, res.info.ID, osEnv)
    /\ UNCHANGED <<rev, cfg, options, useBundler, calabashCucumberVersion,
                   gemFilePath, pending, appPath, lockVars, simVars>>

\* rubycmd.NewRubyCommandModel (main.go)
NewRubyCommand ==
    /\ pc = "rubycmd"
    /\ \E ok \in BOOLEAN, e \in BOOLEAN :
          IF ok THEN Continue(cmds, "rubycmd") ELSE Fail(cmds, "rubycmd", e)
    /\ UNCHANGED <<rev, cfg, world, simulatorInfo, options, useBundler,
                   calabashCucumberVersion, gemFilePath, pending, appPath, osEnv,
                   lockVars, simVars>>

\* ------------------------------------------------------------------------
\* make the app fit the simulator architecture (part_001)
\* ------------------------------------------------------------------------
TmpAppPath == "/tmp/_calabash_ios_/My.app"
AppOutcomes == {"copied64", "copied32", "archErr", "tmpDirErr", "copyErr", "contentErr"}

\* simulator.Is64BitArchitecture(configs.SimulatorDevice): true, false or an error
ArchStates == {"64", "32", "error"}

\* the outcomes of the block for an architecture
AppOutcomesOf(arch) ==
    IF arch = "error" THEN {"archErr"}
    ELSE {IF arch = "64" THEN "copied64" ELSE "copied32", "tmpDirErr", "copyErr",
          "contentErr"}

\* the app directory moved to the temporary directory (os.Rename)
RenameDir(fs) == [orig |-> AbsentDir, tmp |-> fs.orig]

\* command.CopyDir(configs.AppPath, tmpDir, false)
CopyDir(fs) == [fs EXCEPT !.tmp = fs.orig]

\* command.CopyDir(newAppMonotouch64Dir or newAppMonotouch32Dir, newAppPath, true)
CopyContent(fs, is64Bit) ==
    [fs EXCEPT !.tmp.main = IF is64Bit THEN fs.tmp.m64 ELSE fs.tmp.m32]

\* the two directories after the block ended with outcome out
FsAfter(fs, out) ==
    IF out \in {"archErr", "tmpDirErr", "copyErr"} THEN fs
    ELSE IF out = "contentErr" THEN CopyDir(fs)
    ELSE CopyContent(CopyDir(fs), out = "copied64")

EnsureApp ==
    /\ pc = "app"
    /\ \E m32 \in (IF appPath # "" THEN PathStates ELSE {Unknown}),
          m64 \in (IF appPath # "" THEN PathStates ELSE {Unknown}),
          e \in BOOLEAN :
          \E arch \in (IF m32 = "exists" /\ m64 = "exists" THEN ArchStates ELSE {Unknown}) :
          \E out \in (IF arch = Unknown THEN {"none"} ELSE AppOutcomesOf(arch)) :
             /\ world' = [world EXCEPT
                             !.mono32 = m32, !.mono64 = m64, !.arch = arch,
                             !.appCopy = out,
                             !.fs = IF out = "none" THEN NoFs
                                    ELSE FsAfter([orig |-> FatApp, tmp |-> AbsentDir], out)]
             /\ IF m32 = "error" \/ m64 = "error"
                   \/ out \in {"archErr", "tmpDirErr", "copyErr", "contentErr"}
                THEN Fail(cmds, "app", e) /\ UNCHANGED appPath
                ELSE /\ Continue(cmds, "app")
                     /\ appPath' = IF out = "none" THEN appPath ELSE TmpAppPath
    /\ UNCHANGED <<rev, cfg, simulatorInfo, options, useBundler,
                   calabashCucumberVersion, gemFilePath, pending, osEnv,
                   lockVars, simVars>>

\* ------------------------------------------------------------------------
\* resolve gem version
\* ------------------------------------------------------------------------
\* the Gemfile alone taken for enough
GemfileFound(path, gemfile, lock) == path # "" /\ gemfile = "exists"

\* Gemfile and Gemfile.lock were both found
LockFound(path, gemfile, lock) == path # "" /\ gemfile = "exists" /\ lock = "exists"

\* useBundler at the end of the step
UseBundlerNoOverride(r, c, gemfile, lock) == LockFound(c.GemFilePath, gemfile, lock)
UseBundler(r, c, gemfile, lock) ==
    IF r = "part001"
    THEN LockFound(c.GemFilePath, gemfile, lock)
    ELSE LockFound(c.GemFilePath, gemfile, lock) /\ c.CalabashCucumberVersion = EmptyStr

\* calabashCucumberVersion at the end of the step (part_001 has no such
\* variable and reads configs.CalabashCucumberVersion wherever it is used)
ResolvedVersion(r, c, gemfile, lock, lockContent) ==
    IF c.CalabashCucumberVersion # EmptyStr THEN c.CalabashCucumberVersion
    ELSE IF r # "part001" /\ LockFound(c.GemFilePath, gemfile, lock)
         THEN calabashCucumberFromGemfileLockContent(lockContent)
         ELSE EmptyStr

\* the Gemfile path the rest of the run uses
GemFilePathOf(r, c) == IF r = "part001" THEN AbsPath(c.GemFilePath) ELSE c.GemFilePath

DetermineVersion ==
    /\ pc = "version"
    /\ \E absOk \in (IF rev = "part001" THEN BOOLEAN ELSE {TRUE}), e \in BOOLEAN :
          \E gf \in (IF absOk /\ cfg.GemFilePath # "" THEN PathStates ELSE {Unknown}) :
          \E lk \in (IF gf = "exists" THEN PathStates ELSE {Unknown}) :
             \E lc \in (IF lk = "exists" THEN SampleLocks \cup {ReadError}
                        ELSE {NoContent}) :
                /\ world' = [world EXCEPT !.gemfile = gf, !.lock = lk,
                                          !.lockContent = lc]
                /\ IF ~absOk \/ gf = "error" \/ lk = "error" \/ lc = ReadError
                   THEN /\ Fail(cmds, "version", e)
                        /\ UNCHANGED <<useBundler, calabashCucumberVersion, gemFilePath>>
                   ELSE /\ Continue(cmds, "version")
                        /\ useBundler' = UseBundler(rev, cfg, gf, lk)
                        /\ calabashCucumberVersion' =
                               ResolvedVersion(rev, cfg, gf, lk, lc)
                        /\ gemFilePath' = GemFilePathOf(rev, cfg)
    /\ UNCHANGED <<rev, cfg, simulatorInfo, options, pending, appPath, osEnv,
                   lockVars, simVars>>

\* ------------------------------------------------------------------------
\* install dependency
\* ------------------------------------------------------------------------
\* which branch of the install step runs
InstallMode(r, c, ub, ccv) ==
    IF r = "part001"
    THEN IF c.CalabashCucumberVersion # EmptyStr THEN "gem"
         ELSE IF ub THEN "bundle" ELSE "latest"
    ELSE IF ub THEN "bundle"
         ELSE IF ccv # EmptyStr THEN "gem" ELSE "latest"

\* the version handed to IsGemInstalled and to the gem install commands
InstallVersion(r, c, ccv) == IF r = "part001" THEN c.CalabashCucumberVersion ELSE ccv

\* an error of the command that is dropped
IgnoreError(ok) == FALSE

\* `if err != nil { registerFail(...) }` after a command has run
StopOnError(ok) == ~ok

\* installing whatever the check says
AlwaysInstall(installed) == TRUE

\* `if !installed { ... }`
NeedsInstall(installed) == ~installed

BundleInstallArgs ==
    <<W("bundle"), W("install"), W("--jobs"), W("20"), W("--retry"), W("5")>>
BundleInstallCmd(ok) ==
    Cmd("bundle install", BundleInstallArgs, gemFilePath, osEnv, Unset, "", "", ok)

\* IsGemInstalled("calabash-cucumber", version): a query of the installed gems
GemListCmd(version, ok) ==
    Cmd("gem list", <<W("gem"), W("list"), W("calabash-cucumber"), version>>,
        Unset, osEnv, Unset, "", "", ok)

\* GemInstall / GemInstallCommands("calabash-cucumber", version): gem install,
\* then what the ruby installation asks for (rbenv rehash)
GemInstallArgs(version) ==
    <<W("gem"), W("install"), W("calabash-cucumber")>>
        \o (IF version = EmptyStr THEN <<>> ELSE <<W("-v"), version>>)
GemInstall(version, n) ==
    [i \in 1..n |->
        IF i = 1
        THEN Cmd("gem install", GemInstallArgs(version), Unset, osEnv, Unset, "", "", TRUE)
        ELSE Cmd("rbenv rehash", <<W("rbenv"), W("rehash")>>, Unset, osEnv, Unset, "",
                 "", TRUE)]

\* entering the loop over installCommands
StartInstalling(list) ==
    /\ pending' = list
    /\ pc' = "installing"
    /\ trace' = Append(trace, Event("install", TRUE))
    /\ UNCHANGED <<cmds, exitCode, testResult>>

InstallStep ==
    /\ pc = "install"
    /\ \E inst \in SUBSET GemVersions, e \in BOOLEAN :
          LET mode == InstallMode(rev, cfg, useBundler, calabashCucumberVersion)
              ver == InstallVersion(rev, cfg, calabashCucumberVersion)
          IN /\ world' = [world EXCEPT !.installed = inst, !.installedRead = TRUE]
             /\ IF mode = "bundle"
                THEN \E newOk \in BOOLEAN, ok \in BOOLEAN :
                        /\ IF ~newOk THEN Fail(cmds, "install", e)
                           ELSE IF StopOnError(ok)
                           THEN Fail(Append(cmds, BundleInstallCmd(ok)), "install", e)
                           ELSE Continue(Append(cmds, BundleInstallCmd(ok)), "install")
                        /\ UNCHANGED pending
                ELSE IF mode = "gem"
                THEN \E checkOk \in BOOLEAN, newOk \in BOOLEAN,
                        n \in 1..MaxInstallCmds :
                        IF ~checkOk
                        THEN /\ Fail(Append(cmds, GemListCmd(ver, FALSE)), "install", e)
                             /\ UNCHANGED pending
                        ELSE IF ~NeedsInstall(ver \in inst)
                        THEN /\ Continue(Append(cmds, GemListCmd(ver, TRUE)), "install")
                             /\ UNCHANGED pending
                        ELSE IF ~newOk
                        THEN /\ Fail(Append(cmds, GemListCmd(ver, TRUE)), "install", e)
                             /\ UNCHANGED pending
                        ELSE /\ pending' = GemInstall(ver, n)
                             /\ pc' = "installing"
                             /\ trace' = Append(trace, Event("install", TRUE))
                             /\ cmds' = Append(cmds, GemListCmd(ver, TRUE))
                             /\ UNCHANGED <<exitCode, testResult>>
                ELSE \E newOk \in BOOLEAN, n \in 1..MaxInstallCmds :
                        IF ~newOk
                        THEN Fail(cmds, "install", e) /\ UNCHANGED pending
                        ELSE StartInstalling(GemInstall(EmptyStr, n))
    /\ UNCHANGED <<rev, cfg, simulatorInfo, options, useBundler,
                   calabashCucumberVersion, gemFilePath, appPath, osEnv,
                   lockVars, simVars>>

\* one turn of `for _, installCommand := range installCommands`
RunInstallCommand ==
    /\ pc = "installing"
    /\ pending # <<>>
    /\ \E ok \in BOOLEAN, e \in BOOLEAN :
          LET ran == Append(cmds, [Head(pending) EXCEPT !.ok = ok])
          IN IF StopOnError(ok)
             THEN Fail(ran, "install", e) /\ UNCHANGED pending
             ELSE /\ pending' = Tail(pending)
                  /\ IF Tail(pending) = <<>>
                     THEN Continue(ran, "install")
                     ELSE /\ cmds' = ran
                          /\ trace' = Append(trace, Event("install", TRUE))
                          /\ UNCHANGED <<pc, exitCode, testResult>>
    /\ UNCHANGED <<rev, cfg, world, simulatorInfo, options, useBundler,
                   calabashCucumberVersion, gemFilePath, appPath, osEnv,
                   lockVars, simVars>>

\* ------------------------------------------------------------------------
\* run cucumber
\* ------------------------------------------------------------------------
\* the cucumber step asking useBundler before the explicit version
RunModeBundlerFirst(r, c, ub) ==
    IF ub THEN "bundle"
    ELSE IF r = "part001" /\ c.CalabashCucumberVersion # EmptyStr THEN "version"
    ELSE "plain"

\* the branch of the cucumber step: "version", "bundle" or "plain"
RunMode(r, c, ub) ==
    IF r = "part001"
    THEN IF c.CalabashCucumberVersion # EmptyStr THEN "version"
         ELSE IF ub THEN "bundle" ELSE "plain"
    ELSE IF ub THEN "bundle" ELSE "plain"

cucumberArgs(r, c, ub, opts) ==
    IF RunMode(r, c, ub) = "version"
    THEN <<W("cucumber"), <<"_">> \o c.CalabashCucumberVersion \o <<"_">> >> \o opts
    ELSE IF RunMode(r, c, ub) = "bundle"
    THEN <<W("bundle"), W("exec"), W("cucumber")>> \o opts
    ELSE <<W("cucumber")>> \o opts

\* DEVICE_TARGET left to what the process environment holds
DeviceTargetInherited(info, env) == env

\* cucumberEnvs := []string{"DEVICE_TARGET=" + simulatorInfo.ID}
DeviceTarget(info, env) == info.ID

CucumberCmd(ok) ==
    Cmd("cucumber", cucumberArgs(rev, cfg, useBundler, options),
        IF RunMode(rev, cfg, useBundler) = "bundle" THEN gemFilePath ELSE Unset,
        DeviceTarget(simulatorInfo, osEnv),
        IF rev = "part001" /\ appPath # "" THEN appPath ELSE Unset,
        IF rev = "part001" THEN AbsPath(cfg.WorkDir) ELSE "",
        "", ok)

RunCucumber ==
    /\ pc = "cucumber"
    /\ \E newOk \in BOOLEAN, ok \in BOOLEAN, e \in BOOLEAN :
          IF ~newOk THEN Fail(cmds, "cucumber", e)
          ELSE IF StopOnError(ok)
          THEN Fail(Append(cmds, CucumberCmd(ok)), "cucumber", e)
          ELSE Continue(Append(cmds, CucumberCmd(ok)), "cucumber")
    /\ UNCHANGED <<rev, cfg, world, simulatorInfo, options, useBundler,
                   calabashCucumberVersion, gemFilePath, pending, appPath, osEnv,
                   lockVars, simVars>>

\* ------------------------------------------------------------------------
\* report result (part_000, part_001)
\* ------------------------------------------------------------------------
reportSuccess(log, envmanOk) ==
    Append(log, exportEnvironmentWithEnvman(ResultKey, "succeeded", envmanOk))

Report ==
    /\ pc = "report"
    /\ \E e \in BOOLEAN : Continue(reportSuccess(cmds, e), "report")
    /\ UNCHANGED <<rev, cfg, world, simulatorInfo, options, useBundler,
                   calabashCucumberVersion, gemFilePath, pending, appPath, osEnv,
                   lockVars, simVars>>

\* ------------------------------------------------------------------------
\* Specification of a run
\* ------------------------------------------------------------------------
Init ==
    /\ rev \in Revs
    /\ cfg \in ConfigsOf(rev)
    /\ world = World0
    /\ pc = "validate"
    /\ simulatorInfo = ZeroInfo
    /\ options = <<>>
    /\ useBundler = FALSE
    /\ calabashCucumberVersion = EmptyStr
    /\ gemFilePath = ""
    /\ pending = <<>>
    /\ cmds = <<>>
    /\ exitCode = NoExit
    /\ testResult = ""
    /\ trace = <<>>
    /\ appPath = cfg.AppPath
    /\ osEnv = UnsetID
    /\ LockIdle
    /\ SimIdle

Next ==
    \/ Validate
    \/ SplitOptions
    \/ ResolveSimulator
    \/ NewRubyCommand
    \/ EnsureApp
    \/ DetermineVersion
    \/ InstallStep
    \/ RunInstallCommand
    \/ RunCucumber
    \/ Report

Spec == Init /\ [][Next]_vars

\* ------------------------------------------------------------------------
\* Specification of the lockfile text transform alone
\* ------------------------------------------------------------------------
ParseLock ==
    /\ lpc = "start"
    /\ lockVersion' = calabashCucumberFromGemfileLockContent(content)
    /\ lockResults' = Append(lockResults, calabashCucumberFromGemfileLockContent(content))
    /\ lpc' = "done"
    /\ UNCHANGED <<content, runVars, simVars>>

\* one more call with the same content
ParseAgain ==
    /\ lpc = "done"
    /\ Len(lockResults) < MaxEvals
    /\ lockVersion' = NotRun
    /\ lpc' = "start"
    /\ UNCHANGED <<content, lockResults, runVars, simVars>>

\* ------------------------------------------------------------------------
\* Specification of getLatestIOSVersion alone, one key of the map per step,
\* in any order (Go ranges over a map in no fixed order)
\* ------------------------------------------------------------------------
LatestLoop ==
    /\ spc = "loop"
    /\ remaining # {}
    /\ \E k \in remaining :
          /\ latestVersionPtr' = LoopBody(latestVersionPtr, k)
          /\ remaining' = remaining \ {k}
          /\ visited' = Append(visited, k)
    /\ UNCHANGED <<simMap, latestOut, spc, latestResults, runVars, lockVars>>

LatestReturn ==
    /\ spc = "loop"
    /\ remaining = {}
    /\ latestOut' = FormatLatest(latestVersionPtr)
    /\ latestResults' = Append(latestResults, [order |-> visited,
                                                out |-> FormatLatest(latestVersionPtr)])
    /\ spc' = "done"
    /\ UNCHANGED <<simMap, remaining, latestVersionPtr, visited, runVars, lockVars>>

\* one more call with the same map
LatestAgain ==
    /\ spc = "done"
    /\ Len(latestResults) < MaxEvals
    /\ remaining' = DOMAIN simMap
    /\ latestVersionPtr' = NilVersion
    /\ latestOut' = [val |-> EmptyOs, err |-> "<not run>"]
    /\ visited' = <<>>
    /\ spc' = "loop"
    /\ UNCHANGED <<simMap, latestResults, runVars, lockVars>>

RunIdle ==
    /\ rev = "main"
    /\ cfg = [SimulatorDevice |-> "", SimulatorOsVersion |-> EmptyOs,
              CalabashCucumberVersion |-> EmptyStr, GemFilePath |-> "",
              WorkDir |-> "", AppPath |-> "", Options |-> <<>>]
    /\ world = World0
    /\ pc = "idle"
    /\ simulatorInfo = ZeroInfo
    /\ options = <<>>
    /\ useBundler = FALSE
    /\ calabashCucumberVersion = EmptyStr
    /\ gemFilePath = ""
    /\ pending = <<>>
    /\ cmds = <<>>
    /\ exitCode = NoExit
    /\ testResult = ""
    /\ trace = <<>>
    /\ appPath = ""
    /\ osEnv = UnsetID

InitLock ==
    /\ content \in LockContents
    /\ lockVersion = NotRun
    /\ lpc = "start"
    /\ lockResults = <<>>
    /\ RunIdle
    /\ SimIdle

NextLock == ParseLock

SpecLock == InitLock /\ [][NextLock]_vars

InitLatest ==
    /\ simMap \in Registries
    /\ remaining = DOMAIN simMap
    /\ latestVersionPtr = NilVersion
    /\ latestOut = [val |-> EmptyOs, err |-> "<not run>"]
    /\ spc = "loop"
    /\ visited = <<>>
    /\ latestResults = <<>>
    /\ RunIdle
    /\ LockIdle

NextLatest == LatestLoop \/ LatestReturn

SpecLatest == InitLatest /\ [][NextLatest]_vars

\* ------------------------------------------------------------------------
\* Specification of repeated evaluations of the two text transforms, each on
\* one input
\* ------------------------------------------------------------------------
InitDeterminism == InitLock \/ InitLatest

NextDeterminism ==
    \/ ParseLock
    \/ ParseAgain
    \/ LatestLoop
    \/ LatestReturn
    \/ LatestAgain

SpecDeterminism == InitDeterminism /\ [][NextDeterminism]_vars

\* ------------------------------------------------------------------------
\* Properties of a run
\* ------------------------------------------------------------------------
Terminated == pc \in {"done", "exited"}

Idx(name) == {i \in 1..Len(cmds) : cmds[i].name = name}
Ran(name) == Idx(name) # {}
RanOk(name) == \E i \in Idx(name) : cmds[i].ok

IsExport(c, value) ==
    /\ c.name = "envman"
    /\ c.argv = <<W("envman"), W("add"), W("--key"), W("BITRISE_XAMARIN_TEST_RESULT")>>
    /\ c.stdin = value

StepOk(step) == \E i \in 1..Len(trace) : trace[i] = Event(step, TRUE)
StepFailed(step) == \E i \in 1..Len(trace) : trace[i] = Event(step, FALSE)
AnyFailed == \E i \in 1..Len(trace) : ~trace[i].ok

\* the mode of the run as the configuration and the file system give it
Explicit == cfg.CalabashCucumberVersion # EmptyStr
LockPresent == cfg.GemFilePath # "" /\ world.gemfile = "exists" /\ world.lock = "exists"
Bundled == ~Explicit /\ LockPresent

UsesBundler(c) ==
    \/ c.name = "bundle install"
    \/ W("bundle") \in Range(c.argv)
    \/ c.BUNDLE_GEMFILE # Unset

\* C1: whenever validation or an external command of the run fails, the run
\* exports BITRISE_XAMARIN_TEST_RESULT=failed before the process terminates:
\* a failed step ends the run with that export as its last command (and the CI
\* system reads "failed" unless envman itself failed), and a failed command
\* is directly followed by it
C1_FailureIsExported ==
    /\ AnyFailed => pc = "exited"
    /\ pc = "exited" =>
          /\ cmds # <<>>
          /\ IsExport(Last(cmds), "failed")
          /\ Last(cmds).ok => testResult = "failed"
    /\ \A i \in 1..Len(cmds) :
          (cmds[i].name # "envman" /\ ~cmds[i].ok) =>
              /\ i + 1 = Len(cmds)
              /\ IsExport(cmds[i + 1], "failed")

C1_Witness ==
    /\ pc = "exited"
    /\ \E i \in Idx("cucumber") : ~cmds[i].ok
    /\ testResult = "failed"

\* C2: the exit code is 0 exactly when validation, simulator resolution,
\* dependency installation and the cucumber run all succeeded; a run in which
\* a step fails ends with exit code 1; there is no exit code before the end
AllSucceeded ==
    /\ ~AnyFailed
    /\ StepOk("validate")
    /\ StepOk("simulator")
    /\ StepOk("install")
    /\ StepOk("cucumber")
    /\ RanOk("cucumber")

C2_ExitCode ==
    /\ ~Terminated => exitCode = NoExit
    /\ Terminated => exitCode \in {0, 1}
    /\ Terminated => (exitCode = 0 <=> AllSucceeded)
    /\ AnyFailed => exitCode = 1

C2_Witness ==
    /\ pc = "exited"
    /\ exitCode = 1
    /\ StepOk("simulator")
    /\ \E i \in Idx("gem install") : ~cmds[i].ok

\* C3: a run in which all steps succeed exports
\* BITRISE_XAMARIN_TEST_RESULT=succeeded, only after the cucumber process has
\* exited successfully; a run that fails never exports "succeeded"
C3_SucceededIsExported ==
    /\ pc = "done" =>
          \E i \in 1..Len(cmds) :
             /\ IsExport(cmds[i], "succeeded")
             /\ \E j \in 1..(i - 1) : cmds[j].name = "cucumber" /\ cmds[j].ok
    /\ \A i \in 1..Len(cmds) :
          IsExport(cmds[i], "succeeded") =>
              /\ ~AnyFailed
              /\ \E j \in 1..(i - 1) : cmds[j].name = "cucumber" /\ cmds[j].ok

\* C4: the steps run in the order validate inputs, resolve simulator, resolve
\* gem version, install dependency, run cucumber, report result, none skipped,
\* each after the previous one succeeded; cucumber is launched only with the
\* simulator resolved and the install step completed successfully
ClaimedOrder == <<"validate", "simulator", "version", "install", "cucumber", "report">>
Claimed(step) == step \in Range(ClaimedOrder)
ClaimedRank(step) == IndexOf(ClaimedOrder, step)
ClaimedEvents == SelectSeq(trace, LAMBDA ev : Claimed(ev.step))

C4_StepsInOrder ==
    /\ ClaimedEvents # <<>> => ClaimedEvents[1].step = "validate"
    /\ \A i \in 1..(Len(ClaimedEvents) - 1) :
          /\ ClaimedEvents[i].ok
          /\ \/ ClaimedRank(ClaimedEvents[i + 1].step)
                    = ClaimedRank(ClaimedEvents[i].step) + 1
             \/ /\ ClaimedEvents[i].step = "install"
                /\ ClaimedEvents[i + 1].step = "install"
    /\ \A i \in 1..(Len(trace) - 1) : trace[i].ok
    /\ Ran("cucumber") =>
          /\ StepOk("simulator")
          /\ simulatorInfo # ZeroInfo
          /\ StepOk("version")
          /\ StepOk("install")
          /\ pending = <<>>
          /\ \A i \in 1..Len(cmds) :
                cmds[i].name \in {"bundle install", "gem list", "gem install",
                                  "rbenv rehash"}
                    => cmds[i].ok /\ \E j \in Idx("cucumber") : i < j

C4_Witness ==
    /\ pc = "done"
    /\ rev = "part000"
    /\ RanOk("bundle install")
    /\ \E i \in 1..Len(cmds) : IsExport(cmds[i], "succeeded")

\* C5: the run stops on the first error: after a failing step no step and no
\* install or cucumber command follows, only the export of the failure; and no
\* command is retried: bundle install, the gem check, gem install and cucumber
\* run at most once
Count(name) == Cardinality(Idx(name))

C5_StopOnFirstError ==
    /\ \A i \in 1..Len(trace) : ~trace[i].ok => i = Len(trace)
    /\ \A i \in 1..Len(cmds) :
          (cmds[i].name # "envman" /\ ~cmds[i].ok) =>
              \A j \in (i + 1)..Len(cmds) : cmds[j].name = "envman"
    /\ AnyFailed => pc = "exited"
    /\ Count("envman") <= 1
    /\ Count("bundle install") <= 1
    /\ Count("gem list") <= 1
    /\ Count("gem install") <= 1
    /\ Count("rbenv rehash") <= MaxInstallCmds - 1
    /\ Count("cucumber") <= 1

C5_Witness ==
    /\ pc = "exited"
    /\ \E i \in Idx("gem install") : ~cmds[i].ok
    /\ ~Ran("cucumber")

LatestGemVersion == VersionB
ResolvedLibrary ==
    IF Explicit THEN cfg.CalabashCucumberVersion
    ELSE IF Bundled THEN calabashCucumberFromGemfileLockContent(world.lockContent)
    ELSE LatestGemVersion
AlreadyInstalled == ResolvedLibrary \in world.installed
InstallRanOk ==
    /\ Ran("gem install") \/ Ran("bundle install")
    /\ \A i \in 1..Len(cmds) :
          cmds[i].name \in {"gem install", "bundle install", "rbenv rehash"}
              => cmds[i].ok /\ \E j \in Idx("cucumber") : i < j

C7_InstallOnlyIfAbsent ==
    Ran("cucumber") =>
        /\ AlreadyInstalled => ~Ran("gem install")
        /\ ~AlreadyInstalled => InstallRanOk

\* C7 as amended: with an explicit version the gem is installed only if it is
\* absent (installed: no gem install command before cucumber; absent: the gem
\* install commands all run successfully before cucumber); without an explicit
\* version the install commands run in every run, installed or not: bundle
\* install with bundler, gem install of the latest version otherwise
C7_InstallOnlyIfAbsentExplicit ==
    Ran("cucumber") =>
        /\ (Explicit /\ AlreadyInstalled) =>
              ~Ran("gem install") /\ ~Ran("bundle install")
        /\ (Explicit /\ ~AlreadyInstalled) =>
              InstallRanOk /\ Ran("gem install") /\ ~Ran("bundle install")
        /\ Bundled => InstallRanOk /\ Ran("bundle install") /\ ~Ran("gem install")
        /\ (~Explicit /\ ~Bundled) =>
              InstallRanOk /\ Ran("gem install") /\ ~Ran("bundle install")

C7_Witness ==
    /\ Ran("cucumber")
    /\ Explicit
    /\ AlreadyInstalled
    /\ ~Ran("gem install")

\* C10: simulator resolution returns a simulator of the requested device name
\* listed in the registry under the requested OS version, under the latest iOS
\* version when "latest" is requested (getSimulatorInfo of main.go; the later
\* revisions leave the lookup to go-xcode); when it returns an error the run
\* fails before any install or cucumber command is executed
SegAt(segs, i) == IF i <= Len(segs) THEN segs[i] ELSE 0
NumLeq(a, b) ==
    \/ SegAt(a, 1) < SegAt(b, 1)
    \/ /\ SegAt(a, 1) = SegAt(b, 1)
       /\ \/ SegAt(a, 2) < SegAt(b, 2)
          \/ SegAt(a, 2) = SegAt(b, 2) /\ SegAt(a, 3) <= SegAt(b, 3)
IOSKeys(m) == {k \in DOMAIN m : k.os = "iOS"}
LatestIOSKeys(m) == {k \in IOSKeys(m) : \A o \in IOSKeys(m) : NumLeq(o.segs, k.segs)}
RequestedKeys ==
    IF cfg.SimulatorOsVersion = Latest THEN LatestIOSKeys(world.registry)
    ELSE {cfg.SimulatorOsVersion} \cap DOMAIN world.registry

C10_SimulatorMatchesRequest ==
    /\ (rev = "main" /\ StepOk("simulator")) =>
          /\ simulatorInfo.Name = cfg.SimulatorDevice
          /\ \E k \in RequestedKeys : simulatorInfo \in InfosOf(world.registry, k)
    /\ StepFailed("simulator") =>
          /\ pc = "exited"
          /\ \A i \in 1..Len(cmds) : cmds[i].name = "envman"

\* ------------------------------------------------------------------------
\* Properties of the lockfile text transform
\* ------------------------------------------------------------------------
\* the lines of a "specs" block: after a line with "specs:", up to the next
\* empty line
InSpecsBlock(lines, i) ==
    \E j \in 1..(i - 1) :
       /\ ContainsSpecs(lines[j])
       /\ \A k \in j..i : ~TrimmedEmpty(lines[k])
IsEntry(line) ==
    /\ Len(line) = 6
    /\ SubSeq(line, 1, 4) = <<" ", "calabash-cucumber", " ", "(">>
    /\ line[6] = ")"
EntryVersion(line) == <<line[5]>>
SpecsEntries(lines) == {i \in 1..Len(lines) : InSpecsBlock(lines, i) /\ IsEntry(lines[i])}

\* C8: calabashCucumberFromGemfileLockContent returns the version V of the
\* entry "calabash-cucumber (V)" for every content whose specs block contains
\* such an entry, and the empty string for every content whose specs block
\* contains none
C8_VersionOfSpecsEntry ==
    lpc = "done" =>
        IF SpecsEntries(content) = {}
        THEN lockVersion = EmptyStr
        ELSE \E i \in SpecsEntries(content) : lockVersion = EntryVersion(content[i])

\* ------------------------------------------------------------------------
\* Properties of getLatestIOSVersion
\* ------------------------------------------------------------------------
\* C9: getLatestIOSVersion returns "iOS <major>.<minor>" of the greatest
\* version among the keys that start with "iOS", compared numerically segment
\* by segment; the keys of other platforms do not influence the result; it
\* returns an error when the map has no iOS key
C9_LatestIsGreatestIOS ==
    spc = "done" =>
        IF IOSKeys(simMap) = {}
        THEN latestOut.err # "" /\ latestOut.val = EmptyOs
        ELSE /\ latestOut.err = ""
             /\ \E k \in LatestIOSKeys(simMap) :
                   latestOut.val = Key("iOS", <<SegAt(k.segs, 1), SegAt(k.segs, 2)>>)

C9_Witness ==
    /\ spc = "done"
    /\ DOMAIN simMap = {IOS93, IOS100, TVOS110}
    /\ latestOut = [val |-> IOS100, err |-> ""]

\* ------------------------------------------------------------------------
\* Properties of the environment of the cucumber process
\* ------------------------------------------------------------------------
\* the lookups of the simulator the run has made
Fetches == Cardinality({i \in 1..Len(trace) : trace[i].step = "simulator"})

\* C11: the simulator descriptor is fetched at most once per run and exactly
\* once in a run that starts cucumber, and whenever the cucumber process is
\* started its environment holds DEVICE_TARGET equal to the identifier of the
\* simulator that lookup resolved, a simulator of the registry
C11_DeviceTargetIsResolvedSimulator ==
    /\ Fetches <= 1
    /\ StepOk("simulator") =>
          /\ world.registryRead
          /\ simulatorInfo.ID.key \in DOMAIN world.registry
          /\ simulatorInfo \in InfosOf(world.registry, simulatorInfo.ID.key)
    /\ \A i \in Idx("cucumber") :
          /\ Fetches = 1
          /\ StepOk("simulator")
          /\ cmds[i].DEVICE_TARGET = simulatorInfo.ID
          /\ cmds[i].DEVICE_TARGET # UnsetID
          /\ cmds[i].DEVICE_TARGET # ZeroInfo.ID

C11_Witness ==
    /\ rev = "part001"
    /\ Ran("cucumber")
    /\ \E i \in Idx("cucumber") :
          cmds[i].DEVICE_TARGET = InfoModel(IOS100, "iPhone 6").ID

InvalidWorkDir == cfg.WorkDir = "" \/ world.workDir # "exists"
InvalidAppPath == cfg.AppPath # "" /\ world.appDir # "exists"
InvalidConfig ==
    \/ rev = "part001" /\ (InvalidWorkDir \/ InvalidAppPath)
    \/ cfg.SimulatorDevice = ""
    \/ cfg.SimulatorOsVersion = EmptyOs

\* C13: input validation rejects the configuration exactly when a required
\* input is missing or invalid (WorkDir empty or not an existing directory,
\* AppPath non-empty but not an existing directory, SimulatorDevice empty,
\* SimulatorOsVersion empty) and accepts it otherwise; when it rejects, no
\* simulator lookup, install command or cucumber command is executed
C13_ValidationRejectsExactlyInvalid ==
    /\ pc # "validate" => (StepFailed("validate") <=> InvalidConfig)
    /\ pc # "validate" => (StepOk("validate") <=> ~InvalidConfig)
    /\ pc = "validate" => trace = <<>> /\ cmds = <<>>
    /\ StepFailed("validate") =>
          /\ pc = "exited"
          /\ trace = <<Event("validate", FALSE)>>
          /\ Fetches = 0
          /\ ~world.registryRead
          /\ ~world.installedRead
          /\ \A i \in 1..Len(cmds) : cmds[i].name = "envman"

C13_Witness ==
    /\ rev = "part001"
    /\ StepFailed("validate")
    /\ cfg.WorkDir # ""
    /\ world.workDir = "exists"
    /\ cfg.AppPath # ""
    /\ world.appDir = "missing"
    /\ cfg.SimulatorDevice # ""
    /\ cfg.SimulatorOsVersion # EmptyOs
    /\ exitCode = 1

\* ------------------------------------------------------------------------
\* Properties of the cucumber command
\* ------------------------------------------------------------------------
VersionPin(v) == <<"_">> \o v \o <<"_">>
ClaimedPrefix ==
    IF Explicit THEN <<W("cucumber"), VersionPin(cfg.CalabashCucumberVersion)>>
    ELSE IF Bundled THEN <<W("bundle"), W("exec"), W("cucumber")>>
    ELSE <<W("cucumber")>>

\* C14: the argument vector of the cucumber command is <<cucumber, _V_>>
\* when an explicit version V is configured, <<bundle, exec, cucumber>> when
\* bundler is used and <<cucumber>> otherwise, followed by all the words of
\* additional_options in their order; the command runs in the configured
\* working directory
C14_CucumberArgv ==
    \A i \in Idx("cucumber") :
       /\ cmds[i].argv = ClaimedPrefix \o Split(cfg.Options).words
       /\ cmds[i].dir = AbsPath(cfg.WorkDir)

\* started through `bundle exec`
BundleExec(c) ==
    /\ Len(c.argv) >= 2
    /\ c.argv[1] = W("bundle")
    /\ c.argv[2] = W("exec")

\* C15: install mode and run mode agree: cucumber is started through
\* `bundle exec` if and only if `bundle install` ran successfully earlier in
\* the run, both commands carry BUNDLE_GEMFILE set to the same Gemfile path,
\* and cucumber started without `bundle exec` carries no BUNDLE_GEMFILE
C15_InstallAndRunModeAgree ==
    \A i \in Idx("cucumber") :
       /\ BundleExec(cmds[i]) <=>
              \E j \in 1..(i - 1) : cmds[j].name = "bundle install" /\ cmds[j].ok
       /\ BundleExec(cmds[i]) =>
              /\ cmds[i].BUNDLE_GEMFILE # Unset
              /\ cmds[i].BUNDLE_GEMFILE # ""
              /\ \A j \in Idx("bundle install") :
                    cmds[j].BUNDLE_GEMFILE = cmds[i].BUNDLE_GEMFILE
       /\ ~BundleExec(cmds[i]) =>
              /\ cmds[i].BUNDLE_GEMFILE = Unset
              /\ ~Ran("bundle install")

C15_Witness ==
    /\ rev = "main"
    /\ \E i \in Idx("cucumber") :
          /\ BundleExec(cmds[i])
          /\ cmds[i].BUNDLE_GEMFILE = "Gemfile"
    /\ \E j \in Idx("bundle install") : cmds[j].ok /\ cmds[j].BUNDLE_GEMFILE = "Gemfile"

\* ------------------------------------------------------------------------
\* Properties of the Gemfile fallbacks
\* ------------------------------------------------------------------------
\* a Gemfile path is configured and the Gemfile or its Gemfile.lock is missing
GemfileMissing == cfg.GemFilePath # "" /\ world.gemfile = "missing"
LockMissing == cfg.GemFilePath # "" /\ world.gemfile = "exists" /\ world.lock = "missing"
\* the Gemfile.lock was read and its specs block lists no calabash-cucumber
LockWithoutEntry ==
    /\ LockPresent
    /\ world.lockContent \notin {NoContent, ReadError}
    /\ SpecsEntries(world.lockContent) = {}

GemInstallOf(v) ==
    <<W("gem"), W("install"), W("calabash-cucumber")>>
        \o (IF v = EmptyStr THEN <<>> ELSE <<W("-v"), v>>)

\* C16: a configured Gemfile path whose Gemfile or Gemfile.lock does not
\* exist is not a failure: the run goes on without bundler and the install
\* step is done with gem install, of the explicit version if one is
\* configured (unless the check finds it installed), of the latest otherwise;
\* a Gemfile.lock that lists no calabash-cucumber entry still makes the run
\* use bundler when no explicit version is configured
C16_GemfileFallbacks ==
    /\ (GemfileMissing \/ LockMissing) =>
          /\ StepOk("version")
          /\ ~StepFailed("version")
          /\ ~useBundler
          /\ \A i \in 1..Len(cmds) : ~UsesBundler(cmds[i])
          /\ \A i \in Idx("gem install") :
                cmds[i].argv = GemInstallOf(cfg.CalabashCucumberVersion)
          /\ Ran("cucumber") =>
                IF Explicit
                THEN /\ RanOk("gem list")
                     /\ cfg.CalabashCucumberVersion \in world.installed
                            \/ RanOk("gem install")
                ELSE RanOk("gem install")
    /\ (LockWithoutEntry /\ ~Explicit /\ StepOk("version")) =>
          /\ useBundler
          /\ ~Ran("gem install")
          /\ Ran("cucumber") =>
                /\ RanOk("bundle install")
                /\ \E i \in Idx("cucumber") : BundleExec(cmds[i])

C16_Witness ==
    /\ LockMissing
    /\ ~Explicit
    /\ pc = "done"
    /\ \E i \in Idx("gem install") : cmds[i].ok /\ cmds[i].argv = GemInstallOf(EmptyStr)
    /\ \E i \in Idx("cucumber") : ~BundleExec(cmds[i])

\* ------------------------------------------------------------------------
\* Properties of the lookup of the latest version
\* ------------------------------------------------------------------------
\* C17: whenever getLatestIOSVersion succeeds on a map, the OS version it
\* returns is a key of that map, so that the lookup of the simulators of the
\* latest version in getSimulatorInfo does not fail with "No simulators found
\* for os version"
C17_LatestIsARegistryKey ==
    (spc = "done" /\ latestOut.err = "") =>
        /\ latestOut.val \in DOMAIN simMap
        /\ \A d \in Devices :
              getSimulatorInfo(simMap, Latest, d).err
                  # "No simulators found for os version"

\* ------------------------------------------------------------------------
\* Properties of the app handed to cucumber
\* ------------------------------------------------------------------------
BothMonotouch == world.mono32 = "exists" /\ world.mono64 = "exists"

\* C18: APP is in the environment of cucumber if and only if an app path is
\* configured; when the configured app holds both .monotouch-32 and
\* .monotouch-64, APP is a copy of the app in a temporary directory into which
\* the files of .monotouch-64 (64-bit simulator) or of .monotouch-32
\* (otherwise) have been copied, and the configured app directory is as it
\* was; in every other case APP is the configured app path
C18_AppForSimulator ==
    /\ \A i \in Idx("cucumber") :
          /\ cmds[i].APP # Unset <=> cfg.AppPath # ""
          /\ (cfg.AppPath # "" /\ BothMonotouch) =>
                /\ cmds[i].APP = TmpAppPath
                /\ cmds[i].APP # cfg.AppPath
                /\ world.arch \in {"64", "32"}
                /\ world.fs.tmp =
                       [FatApp EXCEPT !.main = IF world.arch = "64" THEN FatApp.m64
                                               ELSE FatApp.m32]
                /\ world.fs.orig = FatApp
          /\ (cfg.AppPath # "" /\ ~BothMonotouch) =>
                /\ cmds[i].APP = cfg.AppPath
                /\ world.fs = NoFs
    /\ world.fs # NoFs => world.fs.orig = FatApp
    /\ \A i \in 1..Len(cmds) : cmds[i].name # "cucumber" => cmds[i].APP = Unset

C18_Witness ==
    /\ \E i \in Idx("cucumber") : cmds[i].APP = TmpAppPath
    /\ world.arch = "32"
    /\ world.fs.tmp.main = "i386"
    /\ world.fs.orig = FatApp
    /\ pc = "done"

====
